---- MODULE Spec2Model ----
(***************************************************************************)
(* The GCM Message builder of src/message/mod.rs and the JSON document    *)
(* its derived serde::Serialize implementation produces.                  *)
(*                                                                         *)
(* A caller constructs a Message with Message::new, applies a chain of    *)
(* consuming setters and build calls to it, and serializes it.  The       *)
(* caller also owns a JsonMap which it hands to Message::data by          *)
(* reference and is free to change afterwards.                            *)
(***************************************************************************)
EXTENDS Integers, Sequences, FiniteSets, TLC

(* ---------------------------------------------------------------------- *)
(* Bounds and input domains                                               *)
(* ---------------------------------------------------------------------- *)

\* Longest builder chain (setter and build calls) explored.
MaxChain == 2

\* Arguments of Message::new.
IdSeqs == { <<>>, <<"abc">>, <<"tok1", "tok2">> }

\* Arguments of the String-taking setters.
Strings == { "a", "b" }

\* Arguments of time_to_live : i32 (no range is validated).
Int32s == { -1, 2419200 }

\* Keys the caller puts in its JsonMap.
DataKeys == { "msg" }

(* ---------------------------------------------------------------------- *)
(* Option<T>                                                              *)
(* ---------------------------------------------------------------------- *)

None == [some |-> FALSE]

Some(v) == [some |-> TRUE, val |-> v]

Option_is_none(o) == ~o.some

(* ---------------------------------------------------------------------- *)
(* JSON values (serde_json::Value and what a Serializer emits)            *)
(* ---------------------------------------------------------------------- *)

JNull == [null |-> TRUE]

JStr(s) == [str |-> s]

JBool(b) == [bool |-> b]

JNum(n) == [num |-> n]

JArr(a) == [arr |-> a]

JObj(m) == [obj |-> m]

\* The JsonValues the caller stores in its map.
DataValues == { JStr("hi"), JNull }

\* JsonMap::new()
JsonMap_new == [k \in {} |-> JNull]

\* JsonMap::insert: adds the entry or replaces the value of an existing key.
JsonMap_insert(m, k, v) ==
    [x \in (DOMAIN m) \cup {k} |-> IF x = k THEN v ELSE m[x]]

\* JsonMap::remove
JsonMap_remove(m, k) == [x \in (DOMAIN m) \ {k} |-> m[x]]

(* ---------------------------------------------------------------------- *)
(* enum Priority                                                          *)
(* ---------------------------------------------------------------------- *)

Priority == { "Normal", "High" }

(* ---------------------------------------------------------------------- *)
(* struct Message                                                         *)
(* ---------------------------------------------------------------------- *)

\* The fields of Message in declaration order, which is the order in which
\* the derived Serialize visits them.
Fields ==
    << "registration_ids", "collapse_key", "priority", "content_available",
       "delay_while_idle", "time_to_live", "restricted_package_name",
       "dry_run", "data" >>

Keys == { Fields[i] : i \in DOMAIN Fields }

VARIABLES
    msg,        \* the Message the builder chain has produced so far
    ids0,       \* the argument Message::new was called with
    chain,      \* the calls applied to the Message since new, in order
    callerMap,  \* the caller's own JsonMap, passed to data() by reference
    out         \* what the last serialization produced

vars == << msg, ids0, chain, callerMap, out >>

(* ---------------------------------------------------------------------- *)
(* impl Message: the constructor, the setters and build                   *)
(* ---------------------------------------------------------------------- *)

\* Variant of new: the priority default is filled in at construction.
new_priority_defaulted(registration_ids) ==
    [ registration_ids        |-> Some(registration_ids),
      collapse_key            |-> None,
      priority                |-> Some("Normal"),
      content_available       |-> None,
      delay_while_idle        |-> None,
      time_to_live            |-> None,
      restricted_package_name |-> None,
      dry_run                 |-> None,
      data                    |-> None ]

new(registration_ids) ==
    [ registration_ids        |-> Some(registration_ids),
      collapse_key            |-> None,
      priority                |-> None,
      content_available       |-> None,
      delay_while_idle        |-> None,
      time_to_live            |-> None,
      restricted_package_name |-> None,
      dry_run                 |-> None,
      data                    |-> None ]

collapse_key(self, v) == [self EXCEPT !.collapse_key = Some(v)]

priority(self, v) == [self EXCEPT !.priority = Some(v)]

\* Variant of content_available: a wake hint also raises the priority.
content_available_wakes(self, v) ==
    IF v THEN [self EXCEPT !.content_available = Some(v), !.priority = Some("High")]
    ELSE [self EXCEPT !.content_available = Some(v)]

content_available(self, v) == [self EXCEPT !.content_available = Some(v)]

\* Variant of delay_while_idle: the assignment targets the neighbouring field.
delay_while_idle_slip(self, v) == [self EXCEPT !.content_available = Some(v)]

delay_while_idle(self, v) == [self EXCEPT !.delay_while_idle = Some(v)]

time_to_live(self, v) == [self EXCEPT !.time_to_live = Some(v)]

\* Variant of restricted_package_name: the other String field is assigned too.
restricted_package_name_slip(self, v) ==
    [self EXCEPT !.restricted_package_name = Some(v), !.collapse_key = Some(v)]

restricted_package_name(self, v) ==
    [self EXCEPT !.restricted_package_name = Some(v)]

dry_run(self, v) == [self EXCEPT !.dry_run = Some(v)]

\* The loop of data(): every entry of the borrowed map is cloned into datamap.
RECURSIVE CloneInto(_, _, _)
CloneInto(datamap, d, todo) ==
    IF todo = {} THEN datamap
    ELSE LET key == CHOOSE k \in todo : TRUE
         IN  CloneInto(JsonMap_insert(datamap, key, d[key]), d, todo \ {key})

\* Variant of data: the copy loop is missing, the new map stays empty.
data_unfilled(self, d) == [self EXCEPT !.data = Some(JsonMap_new)]

\* Variant of data: the entries are inserted into the map already stored.
data_merge(self, d) ==
    LET datamap == IF Option_is_none(self.data) THEN JsonMap_new ELSE self.data.val
    IN  [self EXCEPT !.data = Some(CloneInto(datamap, d, DOMAIN d))]

data(self, d) ==
    LET datamap == CloneInto(JsonMap_new, d, DOMAIN d)
    IN  [self EXCEPT !.data = Some(datamap)]

\* Variant of build: an absent priority is defaulted when the chain ends.
build_defaults(self) ==
    IF Option_is_none(self.priority) THEN [self EXCEPT !.priority = Some("Normal")]
    ELSE self

build(self) == self

(* ---------------------------------------------------------------------- *)
(* Serialization: #[derive(Serialize)] with the fields' serde attributes  *)
(* ---------------------------------------------------------------------- *)

\* Variant of the skip attribute: no field is ever skipped.
skip_never(field) == FALSE

\* skip_serializing_if = "Option::is_none", the attribute of every field.
skip_serializing_if(field) == Option_is_none(field)

\* Variant of the encoder: the derived Serialize of Option<Priority>, which
\* writes the variant's name.
priority_tag(priority_field) ==
    IF Option_is_none(priority_field) THEN JNull ELSE JStr(priority_field.val)

\* serialize_with = "priority_lowercase"
priority_lowercase(priority_field) ==
    LET normal_priority == "Normal"
        p == IF Option_is_none(priority_field) THEN normal_priority
             ELSE priority_field.val
    IN  CASE p = "Normal" -> JStr("normal")
          [] p = "High"   -> JStr("high")

\* What the Serialize implementation of each field's payload type emits.
Value_serialize(k, v) ==
    CASE k = "registration_ids" -> JArr([i \in DOMAIN v |-> JStr(v[i])])
      [] k \in {"collapse_key", "restricted_package_name"} -> JStr(v)
      [] k \in {"content_available", "delay_while_idle", "dry_run"} -> JBool(v)
      [] k = "time_to_live" -> JNum(v)
      [] k = "data" -> JObj(v)

\* Option<T>'s own Serialize: the payload for Some, null for None.
Option_serialize(k, field) ==
    IF Option_is_none(field) THEN JNull ELSE Value_serialize(k, field.val)

\* The value serialize_field is given for field k.
FieldValue(k, field) ==
    IF k = "priority" THEN priority_lowercase(field)
    ELSE Option_serialize(k, field)

\* Variant of the gate: the priority field lost its skip attribute.
Emitted_priority_ungated(m) ==
    SelectSeq(Fields, LAMBDA k : k = "priority" \/ ~skip_serializing_if(m[k]))

\* The fields that pass the skip gate, in declaration order.
Emitted(m) == SelectSeq(Fields, LAMBDA k : ~skip_serializing_if(m[k]))

\* The JSON object: its entries in the order they are written.
Serialize(m) ==
    LET e == Emitted(m)
    IN  [i \in DOMAIN e |-> [key |-> e[i], val |-> FieldValue(e[i], m[e[i]])]]

\* The arguments priority_lowercase is invoked with while m is serialized.
EncoderCalls(m) ==
    LET e == Emitted(m)
    IN  { m[e[i]] : i \in { j \in DOMAIN e : e[j] = "priority" } }

(* ---------------------------------------------------------------------- *)
(* The caller's program                                                   *)
(* ---------------------------------------------------------------------- *)

NoOut == [done |-> FALSE]

Init ==
    /\ ids0 \in IdSeqs
    /\ msg = new(ids0)
    /\ chain = <<>>
    /\ callerMap = JsonMap_new
    /\ out = NoOut

\* The record the chain keeps of a call.
CallOf(op, arg) == [op |-> op, arg |-> arg]

\* Every call moves the Message in, changes it and moves it out; the caller's
\* map and earlier output are not touched.

SetCollapseKey ==
    \E v \in Strings :
        /\ Len(chain) < MaxChain
        /\ msg' = collapse_key(msg, v)
        /\ chain' = Append(chain, CallOf("collapse_key", v))
        /\ UNCHANGED << ids0, callerMap, out >>

SetPriority ==
    \E v \in Priority :
        /\ Len(chain) < MaxChain
        /\ msg' = priority(msg, v)
        /\ chain' = Append(chain, CallOf("priority", v))
        /\ UNCHANGED << ids0, callerMap, out >>

SetContentAvailable ==
    \E v \in BOOLEAN :
        /\ Len(chain) < MaxChain
        /\ msg' = content_available(msg, v)
        /\ chain' = Append(chain, CallOf("content_available", v))
        /\ UNCHANGED << ids0, callerMap, out >>

SetDelayWhileIdle ==
    \E v \in BOOLEAN :
        /\ Len(chain) < MaxChain
        /\ msg' = delay_while_idle(msg, v)
        /\ chain' = Append(chain, CallOf("delay_while_idle", v))
        /\ UNCHANGED << ids0, callerMap, out >>

SetTimeToLive ==
    \E v \in Int32s :
        /\ Len(chain) < MaxChain
        /\ msg' = time_to_live(msg, v)
        /\ chain' = Append(chain, CallOf("time_to_live", v))
        /\ UNCHANGED << ids0, callerMap, out >>

SetRestrictedPackageName ==
    \E v \in Strings :
        /\ Len(chain) < MaxChain
        /\ msg' = restricted_package_name(msg, v)
        /\ chain' = Append(chain, CallOf("restricted_package_name", v))
        /\ UNCHANGED << ids0, callerMap, out >>

SetDryRun ==
    \E v \in BOOLEAN :
        /\ Len(chain) < MaxChain
        /\ msg' = dry_run(msg, v)
        /\ chain' = Append(chain, CallOf("dry_run", v))
        /\ UNCHANGED << ids0, callerMap, out >>

\* data(&map) with the caller's map as it is now.
SetData ==
    /\ Len(chain) < MaxChain
    /\ msg' = data(msg, callerMap)
    /\ chain' = Append(chain, CallOf("data", callerMap))
    /\ UNCHANGED << ids0, callerMap, out >>

Build ==
    /\ Len(chain) < MaxChain
    /\ msg' = build(msg)
    /\ chain' = Append(chain, CallOf("build", <<>>))
    /\ UNCHANGED << ids0, callerMap, out >>

\* serde serializes the Message through a shared reference.
DoSerialize ==
    /\ out' = [done |-> TRUE, doc |-> Serialize(msg), enc |-> EncoderCalls(msg)]
    /\ UNCHANGED << msg, ids0, chain, callerMap >>

\* The caller changes its own map: map.insert(key, value).
CallerInsert ==
    \E k \in DataKeys, v \in DataValues :
        /\ callerMap' = JsonMap_insert(callerMap, k, v)
        /\ UNCHANGED << msg, ids0, chain, out >>

\* The caller changes its own map: map.remove(key).
CallerRemove ==
    \E k \in DOMAIN callerMap :
        /\ callerMap' = JsonMap_remove(callerMap, k)
        /\ UNCHANGED << msg, ids0, chain, out >>

Next ==
    \/ SetCollapseKey
    \/ SetPriority
    \/ SetContentAvailable
    \/ SetDelayWhileIdle
    \/ SetTimeToLive
    \/ SetRestrictedPackageName
    \/ SetDryRun
    \/ SetData
    \/ Build
    \/ DoSerialize
    \/ CallerInsert
    \/ CallerRemove

Spec == Init /\ [][Next]_vars

(* ---------------------------------------------------------------------- *)
(* Vocabulary of the properties                                           *)
(* ---------------------------------------------------------------------- *)

\* The eight setters carry the name of the field they set.
Setters == Keys \ {"registration_ids"}

Last(s) == s[Len(s)]

\* The step appended a call of operation op to the chain.
Called(op) == chain' # chain /\ Last(chain').op = op

\* The positions of the chain that call setter f.
CallsOf(c, f) == { i \in DOMAIN c : c[i].op = f }

WasSet(f) == CallsOf(chain, f) # {}

\* The argument of the last call of setter f.
LastArg(f) ==
    chain[CHOOSE i \in CallsOf(chain, f) : \A j \in CallsOf(chain, f) : j <= i].arg

Built == CallsOf(chain, "build") # {}

DocKeys(d) == { d[i].key : i \in DOMAIN d }

DocGet(d, k) == d[CHOOSE i \in DOMAIN d : d[i].key = k].val

\* The JSON rendering the wire format prescribes for a value given to field f.
Wire(f, a) ==
    CASE f = "registration_ids" -> [arr |-> [i \in DOMAIN a |-> [str |-> a[i]]]]
      [] f = "collapse_key" -> [str |-> a]
      [] f = "priority" -> IF a = "High" THEN [str |-> "high"] ELSE [str |-> "normal"]
      [] f = "content_available" -> [bool |-> a]
      [] f = "delay_while_idle" -> [bool |-> a]
      [] f = "time_to_live" -> [num |-> a]
      [] f = "restricted_package_name" -> [str |-> a]
      [] f = "dry_run" -> [bool |-> a]
      [] f = "data" -> [obj |-> a]

\* The value field f was given: by new for registration_ids, else by the
\* last call of its setter.
Given(f) == IF f = "registration_ids" THEN ids0 ELSE LastArg(f)

\* One call applied to a Message.
ApplyCall(m, c) ==
    CASE c.op = "collapse_key" -> collapse_key(m, c.arg)
      [] c.op = "priority" -> priority(m, c.arg)
      [] c.op = "content_available" -> content_available(m, c.arg)
      [] c.op = "delay_while_idle" -> delay_while_idle(m, c.arg)
      [] c.op = "time_to_live" -> time_to_live(m, c.arg)
      [] c.op = "restricted_package_name" -> restricted_package_name(m, c.arg)
      [] c.op = "dry_run" -> dry_run(m, c.arg)
      [] c.op = "data" -> data(m, c.arg)
      [] c.op = "build" -> build(m)

\* A sequence of calls applied to a Message, first call first.
RECURSIVE Run(_, _)
Run(m, calls) ==
    IF calls = <<>> THEN m ELSE Run(ApplyCall(m, Head(calls)), Tail(calls))

\* The field-setting calls of the chain.
SetterCalls == SelectSeq(chain, LAMBDA c : c.op # "build")

Perms(n) == { p \in [1..n -> 1..n] : \A i, j \in 1..n : p[i] = p[j] => i = j }

Permuted(calls, p) == [i \in DOMAIN calls |-> calls[p[i]]]

\* p keeps the calls that set the same field in their relative order.
KeepsSameFieldOrder(calls, p) ==
    \A i, j \in DOMAIN calls :
        (i < j /\ calls[p[i]].op = calls[p[j]].op) => p[i] < p[j]

(* ---------------------------------------------------------------------- *)
(* Properties                                                             *)
(* ---------------------------------------------------------------------- *)

\* C1: whatever chain of setters and build calls produced the Message, its
\* document holds each of the nine keys exactly when the field is set (for
\* the optional fields: when its setter was called), once, with the wire
\* rendering of the value given, and none of the nine keys carries null.
C1_DocumentMirrorsFields ==
    LET d == Serialize(msg)
    IN  /\ \A k \in Keys :
            /\ (k \in DocKeys(d)) <=> ~Option_is_none(msg[k])
            /\ (k \in DocKeys(d)) <=> (k = "registration_ids" \/ WasSet(k))
        /\ \A i, j \in DOMAIN d : d[i].key = d[j].key => i = j
        /\ \A i \in DOMAIN d :
            /\ d[i].val # JNull
            /\ d[i].val = Wire(d[i].key, Given(d[i].key))

C1_Witness ==
    /\ out.done
    /\ out.doc = Serialize(msg)
    /\ WasSet("data")
    /\ WasSet("time_to_live")
    /\ ~WasSet("priority")

\* C2: when priority is set, the priority key holds "high" for High and
\* "normal" for Normal, and never the variant's tag name.
C2_PriorityLowercase ==
    WasSet("priority") =>
        LET v == DocGet(Serialize(msg), "priority")
        IN  /\ "priority" \in DocKeys(Serialize(msg))
            /\ LastArg("priority") = "High" => v = [str |-> "high"]
            /\ LastArg("priority") = "Normal" => v = [str |-> "normal"]
            /\ v \notin { [str |-> "High"], [str |-> "Normal"] }

C2_Witness ==
    /\ out.done
    /\ out.doc = Serialize(msg)
    /\ WasSet("priority")
    /\ LastArg("priority") = "High"

\* C3: a setter call changes its own field to the argument and no other field.
C3_SetterFrame ==
    [][ \A f \in Setters :
            Called(f) => msg' = [msg EXCEPT ![f] = Some(Last(chain').arg)] ]_vars

C3_Witness ==
    /\ Len(chain) >= 2
    /\ Last(chain).op \in Setters
    /\ chain[Len(chain) - 1].op \in Setters \ {Last(chain).op}

\* C4: new(ids) sets registration_ids to ids in order and nothing else, so
\* the document of a Message no setter was applied to is the single entry
\* registration_ids with the array of the ids.
C4_CreateIsMinimal ==
    chain = <<>> =>
        /\ msg.registration_ids = Some(ids0)
        /\ \A k \in Setters : msg[k] = None
        /\ Serialize(msg) =
             << [key |-> "registration_ids",
                 val |-> [arr |-> [i \in DOMAIN ids0 |-> [str |-> ids0[i]]]]] >>
        /\ ids0 = <<"abc">> =>
             Serialize(msg) =
               << [key |-> "registration_ids", val |-> [arr |-> << [str |-> "abc"] >>]] >>

C4_Witness ==
    /\ chain = <<>>
    /\ ids0 = <<"tok1", "tok2">>
    /\ out.done
    /\ out.doc = Serialize(msg)

\* C5: build is the identity: the Message and its document are those of the
\* chain with every build call left out.
C5_BuildIsIdentity ==
    /\ msg = Run(new(ids0), SetterCalls)
    /\ Serialize(msg) = Serialize(Run(new(ids0), SetterCalls))

C5_Witness ==
    /\ Len(chain) >= 2
    /\ chain[1].op = "build"
    /\ Last(chain).op \in Setters

\* C6: data() stores the caller's map as it is at the call; a later change
\* of the caller's map changes neither the Message nor its document, and a
\* change of the stored map leaves the caller's map alone.
C6_DataIsACopy ==
    [][ /\ Called("data") => (msg'.data = Some(callerMap) /\ callerMap' = callerMap)
        /\ callerMap' # callerMap =>
              (msg' = msg /\ Serialize(msg') = Serialize(msg))
        /\ msg'.data # msg.data => callerMap' = callerMap ]_vars

C6_Witness ==
    /\ msg.data = Some([k \in {"msg"} |-> JStr("hi")])
    /\ callerMap # msg.data.val
    /\ out.done
    /\ "data" \in DocKeys(out.doc)
    /\ DocGet(out.doc, "data") = [obj |-> [k \in {"msg"} |-> [str |-> "hi"]]]

\* C7 as stated: every permutation of the field-setting calls gives the
\* same Message.
C7_AnyPermutation ==
    \A p \in Perms(Len(SetterCalls)) :
        Run(new(ids0), Permuted(SetterCalls, p)) = msg

\* C7 amended: every permutation of the field-setting calls that keeps the
\* calls setting the same field in their relative order gives the same
\* Message and the same document.
C7_PermutationAcrossFields ==
    \A p \in Perms(Len(SetterCalls)) :
        KeepsSameFieldOrder(SetterCalls, p) =>
            /\ Run(new(ids0), Permuted(SetterCalls, p)) = msg
            /\ Serialize(Run(new(ids0), Permuted(SetterCalls, p))) = Serialize(msg)

C7_Witness ==
    /\ Len(SetterCalls) >= 2
    /\ SetterCalls[1].op # SetterCalls[2].op

\* C8 as stated: once build has been applied, no step changes the Message.
C8_FrozenAfterBuild == [][ Built => msg' = msg ]_vars

\* C8 amended: once build has been applied, the Message changes only by a
\* further setter call, which changes the one field it sets; build,
\* serialization and the caller's other steps leave it as it is.
C8_OnlySettersChangeABuiltMessage ==
    [][ Built =>
          \/ msg' = msg
          \/ \E f \in Setters :
                /\ Called(f)
                /\ msg' = [msg EXCEPT ![f] = Some(Last(chain').arg)] ]_vars

C8_Witness ==
    /\ Built
    /\ Last(chain).op \in Setters
    /\ out.done
    /\ out.doc = Serialize(msg)

\* C9: the encoder is invoked only behind the skip gate: it is never given
\* an absent priority, and a Message whose priority setter was never called
\* has no priority key in its document.
C9_GateThenEncode ==
    /\ None \notin EncoderCalls(msg)
    /\ out.done => None \notin out.enc
    /\ ~WasSet("priority") =>
          /\ EncoderCalls(msg) = {}
          /\ "priority" \notin DocKeys(Serialize(msg))
          /\ out.done => (out.enc = {} /\ "priority" \notin DocKeys(out.doc))

C9_Witness ==
    /\ out.done
    /\ out.doc = Serialize(msg)
    /\ ~WasSet("priority")
    /\ WasSet("dry_run")

\* C10: a field holds the argument of the last call of its setter (for data
\* the last map, not a merge), registration_ids holds what new was given,
\* and no step returns a set field to unset.
C10_LastWriteWins ==
    /\ [](/\ msg.registration_ids = Some(ids0)
          /\ \A f \in Setters : WasSet(f) => msg[f] = Some(LastArg(f)))
    /\ [][ \A k \in Keys : ~Option_is_none(msg[k]) => ~Option_is_none(msg'[k]) ]_vars

C10_Witness ==
    /\ Len(chain) >= 2
    /\ chain[1].op = "data"
    /\ Last(chain).op = "data"
    /\ DOMAIN chain[1].arg # {}
    /\ DOMAIN Last(chain).arg = {}
    /\ msg.data = Some(JsonMap_new)

====
